---- MODULE Spec2Model ----
(***************************************************************************)
(* London Rental Finder (findingaflat.py): the Dash callbacks that load    *)
(* the listings, compute the distance column, keep the page number and     *)
(* build the dashboard view.                                               *)
(*                                                                         *)
(* Units.  Coordinates are integers in 1e-4 degrees (the step of the       *)
(* lat/lon inputs), so 51.5074 is 515074 and -0.1278 is -1278.  Distances  *)
(* are integers in metres (0.001 km, the resolution the table rounds to),  *)
(* so the distance input's 10 km is 10000.  Prices are whole pounds.       *)
(*                                                                         *)
(* Optional values.  Python's None and pandas' NaN are the empty sequence  *)
(* <<>>; a present value x is <<x>>.  The dropdowns' 'all' is <<>> too.    *)
(***************************************************************************)
EXTENDS Integers, Sequences, FiniteSets, TLC

VARIABLES
    csv,             \* the rows of the CSV file read into df: <<first, last>>
    df_clean,        \* the cleaned listings, in original row order
    bedrooms,        \* 'bedrooms-filter'.value
    bathrooms,       \* 'bathrooms-filter'.value
    price_range,     \* 'price-slider'.value, <<lo, hi>>
    lat_input,       \* 'lat-input'.value
    lon_input,       \* 'lon-input'.value
    distance_input,  \* 'distance-input'.value (max distance)
    table_toggle,    \* 'table-toggle'.value
    distance_data,   \* dcc.Store 'distance-data'
    current_page,    \* dcc.Store 'current-page'
    view,            \* the outputs of the last update_dashboard run
    triggered,       \* id of the input whose change started the last callback chain
    shown_before     \* the page the view showed when that input changed

vars == <<csv, df_clean, bedrooms, bathrooms, price_range, lat_input, lon_input,
          distance_input, table_toggle, distance_data, current_page, view,
          triggered, shown_before>>

-----------------------------------------------------------------------------
(* Bounds of the model *)

\* number of raw rows of the largest dataset read from the CSV file
MaxRows == 30

\* largest value the model lets the 'current-page' store grow to
MaxStoredPage == 4

-----------------------------------------------------------------------------
(* Optional values and small helpers *)

None == <<>>

Some(x) == <<x>>

Max(a, b) == IF a >= b THEN a ELSE b

Min(a, b) == IF a <= b THEN a ELSE b

Abs(x) == IF x < 0 THEN -x ELSE x

\* metres in k kilometres
Km(k) == k * 1000

RECURSIVE SumSeq(_)
SumSeq(s) == IF s = <<>> THEN 0 ELSE Head(s) + SumSeq(Tail(s))

RECURSIVE SqrtBetween(_, _, _)
SqrtBetween(n, lo, hi) ==
    IF lo = hi THEN lo
    ELSE LET mid == (lo + hi + 1) \div 2
         IN  IF mid * mid <= n THEN SqrtBetween(n, mid, hi)
                               ELSE SqrtBetween(n, lo, mid - 1)

\* np.sqrt on the integer grid: the largest r with r*r <= n
Isqrt(n) == SqrtBetween(n, 0, 46340)

\* x / d rounded to the nearest integer, ties to even (what f"{x:.0f}" prints)
RoundDiv(x, d) ==
    LET q == x \div d
        r == x % d
    IN  IF 2 * r < d THEN q
        ELSE IF 2 * r > d THEN q + 1
        ELSE IF q % 2 = 0 THEN q ELSE q + 1

-----------------------------------------------------------------------------
(* haversine *)

R == 6371

\* 1000 * cos(lat), lat in 1e-4 degrees: np.radians, then the cosine's series
\* 1 - x^2/2 + x^4/24 in thousandths
Cos1000(lat) ==
    LET x  == ((Abs(lat) \div 100) * 1745) \div 10000
        x2 == (x * x) \div 1000
    IN  1000 - (x2 \div 2) + (((x2 * x2) \div 1000) \div 24)

\* variant: a is kept away from 0 by one unit
haversine_of_positive_a(lat1, lon1, lat2, lon2) ==
    LET dlat == lat2 - lat1
        dlon == lon2 - lon1
        cc   == (Cos1000(lat1) * Cos1000(lat2)) \div 1000
        a    == dlat * dlat + (cc * (dlon * dlon)) \div 1000 + 1
        c    == Isqrt(a)
    IN  (((R * 1745) \div 1000) * c) \div 1000

\* Distance in metres between two points given in 1e-4 degrees.  For the
\* differences of a city-sized dataset sin(d/2) is d/2 and arcsin(s) is s, so
\* 2*R*arcsin(sqrt(a)) is R*sqrt(dlat^2 + cos(lat1)*cos(lat2)*dlon^2) with the
\* differences in radians; one unit of 1e-4 degrees is 1.745e-6 rad.
haversine(lat1, lon1, lat2, lon2) ==
    LET dlat == lat2 - lat1
        dlon == lon2 - lon1
        cc   == (Cos1000(lat1) * Cos1000(lat2)) \div 1000
        a    == dlat * dlat + (cc * (dlon * dlon)) \div 1000
        c    == Isqrt(a)
    IN  (((R * 1745) \div 1000) * c) \div 1000

-----------------------------------------------------------------------------
(* The CSV file and its cleaning *)

items_per_page == 10

PriceCycle == <<2500, 1500, 4000, 3000, 2000, 12000, 4100>>

BedroomsCycle == <<Some(1), Some(2), None>>

BathroomsCycle == <<Some(1), None>>

\* Charing Cross (the inputs' default origin), Liverpool Street, Bank,
\* King's Cross and a point south-east of the City
PlaceCycle == << <<515074, -1278>>, <<515188, -814>>, <<515112, -879>>,
                 <<515316, -1236>>, <<514950, -600>> >>

Cycle(s, i) == s[((i - 1) % Len(s)) + 1]

\* the cells of the file: a number, a text that is no number, or nothing
Number(x) == [kind |-> "number", value |-> x]

Text(t) == [kind |-> "text", value |-> t]

Absent == [kind |-> "absent"]

\* Row i of the catalogue the files are cut from.  Every 9th row has a price
\* that is no number and every 13th no latitude; a bedrooms cell that is no
\* number reads "Studio" and a bathrooms cell that is no number is empty.
CsvRow(i) ==
    [idx       |-> i,
     price     |-> IF i % 9 = 0 THEN Text("POA")
                               ELSE Number(Cycle(PriceCycle, i)),
     bedrooms  |-> IF Cycle(BedroomsCycle, i) = None THEN Text("Studio")
                   ELSE Number(Cycle(BedroomsCycle, i)[1]),
     bathrooms |-> IF Cycle(BathroomsCycle, i) = None THEN Absent
                   ELSE Number(Cycle(BathroomsCycle, i)[1]),
     latitude  |-> IF i % 13 = 0 THEN Absent
                                ELSE Number(Cycle(PlaceCycle, i)[1]),
     longitude |-> Number(Cycle(PlaceCycle, i)[2])]

\* pd.to_numeric(column, errors='coerce') on one cell: NaN unless a number
to_numeric(cell) == IF cell.kind = "number" THEN Some(cell.value) ELSE None

\* Row i after the five pd.to_numeric(errors='coerce') assignments
RawRow(i) ==
    [idx       |-> CsvRow(i).idx,
     price     |-> to_numeric(CsvRow(i).price),
     bedrooms  |-> to_numeric(CsvRow(i).bedrooms),
     bathrooms |-> to_numeric(CsvRow(i).bathrooms),
     latitude  |-> to_numeric(CsvRow(i).latitude),
     longitude |-> to_numeric(CsvRow(i).longitude)]

\* the sizes of the files cut from the start of the catalogue: a single
\* listing, exactly one full page of cleaned listings, and several pages
RowCounts == {1, items_per_page + 1, MaxRows}

\* the files the model reads, as <<first row, last row>> of the catalogue;
\* the last one holds a single row, whose price is no number
Files == {<<1, n>> : n \in RowCounts} \cup {<<9, 9>>}

\* df after the pd.to_numeric assignments
df(file) == [k \in 1..(file[2] - file[1] + 1) |-> RawRow(file[1] + k - 1)]

\* variant: dropna over every column
DropNaAnyColumn(rows) ==
    LET Complete(r) == /\ r.price # None /\ r.latitude # None
                       /\ r.longitude # None
                       /\ r.bedrooms # None /\ r.bathrooms # None
        kept == SelectSeq(rows, Complete)
    IN  [k \in 1..Len(kept) |->
            [idx       |-> kept[k].idx,
             price     |-> kept[k].price[1],
             bedrooms  |-> kept[k].bedrooms,
             bathrooms |-> kept[k].bathrooms,
             latitude  |-> kept[k].latitude[1],
             longitude |-> kept[k].longitude[1]]]

\* df.dropna(subset=['price', 'latitude', 'longitude'])
DropNa(rows) ==
    LET Complete(r) == r.price # None /\ r.latitude # None /\ r.longitude # None
        kept == SelectSeq(rows, Complete)
    IN  [k \in 1..Len(kept) |->
            [idx       |-> kept[k].idx,
             price     |-> kept[k].price[1],
             bedrooms  |-> kept[k].bedrooms,
             bathrooms |-> kept[k].bathrooms,
             latitude  |-> kept[k].latitude[1],
             longitude |-> kept[k].longitude[1]]]

\* sorted([int(x) for x in column.dropna().unique() if x >= 0]), as a set
Options(rows, col) ==
    {rows[k][col][1] : k \in {j \in 1..Len(rows) :
                                rows[j][col] # None /\ rows[j][col][1] >= 0}}

bedrooms_options == Options(df_clean, "bedrooms")

bathrooms_options == Options(df_clean, "bathrooms")

-----------------------------------------------------------------------------
(* update_location_from_buttons and calculate_distances *)

\* the coordinates each station button writes into the lat/lon inputs
StationCoords(button_id) ==
    CASE button_id = "btn-liverpool-street" -> <<515188, -814>>
      [] button_id = "btn-moorgate"         -> <<515187, -890>>
      [] button_id = "btn-aldgate"          -> <<515144, -757>>
      [] button_id = "btn-bank"             -> <<515112, -879>>
      [] button_id = "btn-aldgate-east"     -> <<515153, -718>>
      [] button_id = "btn-kings-cross"      -> <<515316, -1236>>
      [] button_id = "btn-farringdon"       -> <<515203, -1055>>

\* the new value of the 'distance-data' store (over an empty df_clean the
\* row-wise apply yields an empty list)
\* variant: a missing coordinate falls back to the inputs' initial value
calculate_distances_from_default(lat, lon) ==
    LET lat0 == IF lat = None THEN 515074 ELSE lat[1]
        lon0 == IF lon = None THEN -1278 ELSE lon[1]
    IN  Some([lat |-> lat0, lon |-> lon0,
              distances |-> [k \in 1..Len(df_clean) |->
                  haversine(lat0, lon0,
                            df_clean[k].latitude, df_clean[k].longitude)]])

\* variant: with a coordinate missing the store keeps what it holds
calculate_distances_keeping_last(lat, lon) ==
    IF lat = None \/ lon = None THEN distance_data
    ELSE Some([lat |-> lat[1], lon |-> lon[1],
               distances |-> [k \in 1..Len(df_clean) |->
                   haversine(lat[1], lon[1],
                             df_clean[k].latitude, df_clean[k].longitude)]])

calculate_distances(lat, lon) ==
    IF lat = None \/ lon = None THEN None
    ELSE Some([lat |-> lat[1], lon |-> lon[1],
               distances |-> [k \in 1..Len(df_clean) |->
                   haversine(lat[1], lon[1],
                             df_clean[k].latitude, df_clean[k].longitude)]])

-----------------------------------------------------------------------------
(* update_page *)

NavButtons == {"prev-page-btn", "next-page-btn"}

\* variant: a change of a filter leaves the page where it is
update_page_keeps_page(trigger_id, page) ==
    IF trigger_id \notin NavButtons THEN page
    ELSE IF trigger_id = "prev-page-btn" THEN Max(1, page - 1)
    ELSE page + 1

\* variant: the display mode is among the triggers that keep the page
update_page_keeps_page_on_toggle(trigger_id, page) ==
    IF trigger_id = "table-toggle" THEN page
    ELSE IF trigger_id \notin NavButtons THEN 1
    ELSE IF trigger_id = "prev-page-btn" THEN Max(1, page - 1)
    ELSE page + 1

\* the new value of the 'current-page' store
update_page(trigger_id, page) ==
    IF trigger_id \notin NavButtons THEN 1
    ELSE IF trigger_id = "prev-page-btn" THEN Max(1, page - 1)
    ELSE page + 1

-----------------------------------------------------------------------------
(* update_dashboard *)

\* Python's truth value of the 'distance-data' store: a non-empty dict
HasDistanceData(dd) == dd # None

\* distance_data and distance_data.get('distances'): a non-empty list
HasDistances(dd) == dd # None /\ Len(dd[1].distances) > 0

\* Python's truth value of the distance input: neither None nor 0
Truthy(number) == number # None /\ number[1] # 0

\* df_clean.copy() with the distance_km column: the stored distances, or 0
WithDistance(dd) ==
    [k \in 1..Len(df_clean) |->
        [idx         |-> df_clean[k].idx,
         price       |-> df_clean[k].price,
         bedrooms    |-> df_clean[k].bedrooms,
         bathrooms   |-> df_clean[k].bathrooms,
         latitude    |-> df_clean[k].latitude,
         longitude   |-> df_clean[k].longitude,
         distance_km |-> IF HasDistances(dd) THEN Some(dd[1].distances[k])
                                             ELSE Some(0)]]

\* filtered_df[filtered_df['bedrooms'] == bedrooms]: NaN equals nothing
ByBedrooms(rows, beds) ==
    LET Keep(r) == r.bedrooms = beds
    IN  IF beds # None THEN SelectSeq(rows, Keep) ELSE rows

ByBathrooms(rows, baths) ==
    LET Keep(r) == r.bathrooms = baths
    IN  IF baths # None THEN SelectSeq(rows, Keep) ELSE rows

\* variant: the price mask is taken from df_clean and applied by position
ByPriceOfDfClean(rows, range) ==
    LET kept == {k \in 1..Len(rows) : /\ df_clean[k].price >= range[1]
                                      /\ df_clean[k].price <= range[2]}
        RECURSIVE From(_)
        From(k) == IF k > Len(rows) THEN <<>>
                   ELSE (IF k \in kept THEN <<rows[k]>> ELSE <<>>) \o From(k + 1)
    IN  From(1)

ByPrice(rows, range) ==
    LET Keep(r) == r.price >= range[1] /\ r.price <= range[2]
    IN  SelectSeq(rows, Keep)

\* if distance_data and max_distance: keep distance_km <= max_distance
ByDistance(rows, dd, max_distance) ==
    LET Keep(r) == r.distance_km[1] <= max_distance[1]
    IN  IF HasDistanceData(dd) /\ Truthy(max_distance)
        THEN SelectSeq(rows, Keep) ELSE rows

\* the four selections of "Apply filters", one after the other
ApplyFilters(rows, beds, baths, range, dd, max_distance) ==
    ByDistance(ByPrice(ByBathrooms(ByBedrooms(rows, beds), baths), range),
               dd, max_distance)

\* filtered_df after the four filters
FilteredDf(beds, baths, range, dd, max_distance) ==
    ApplyFilters(WithDistance(dd), beds, baths, range, dd, max_distance)

Column(rows, col) == [k \in 1..Len(rows) |-> rows[k][col]]

\* the table's rows: the filtered rows, or all cleaned rows, which carry a
\* distance_km column only when distances are stored
\* variant: the table is the filtered view in both display modes
TableDfFilteredOnly(filtered, dd, toggle) == filtered

TableDf(filtered, dd, toggle) ==
    IF toggle = "filtered" THEN filtered
    ELSE [k \in 1..Len(df_clean) |->
            [idx         |-> df_clean[k].idx,
             price       |-> df_clean[k].price,
             bedrooms    |-> df_clean[k].bedrooms,
             bathrooms   |-> df_clean[k].bathrooms,
             latitude    |-> df_clean[k].latitude,
             longitude   |-> df_clean[k].longitude,
             distance_km |-> IF HasDistances(dd) THEN Some(dd[1].distances[k])
                                                 ELSE None]]

\* variant: the division rounds down
TotalPagesFloor(total_items) == Max(1, total_items \div items_per_page)

TotalPages(total_items) ==
    Max(1, (total_items + items_per_page - 1) \div items_per_page)

\* variant: the page is kept above 0 only
ClampPageLowerOnly(page, total_pages) == Max(1, page)

\* current_page = max(1, min(current_page, total_pages))
ClampPage(page, total_pages) == Max(1, Min(page, total_pages))

\* variant: the prev button stays enabled on page 1
PrevDisabledBelowFirst(page) == page < 1

\* prev_disabled = current_page <= 1
PrevDisabled(page) == page <= 1

\* variant: the next button stays enabled on the last page
NextDisabledPastLast(page, total_pages) == page > total_pages

\* next_disabled = current_page >= total_pages
NextDisabled(page, total_pages) == page >= total_pages

\* avg_price: the mean price in whole pounds, None for "N/A"
AvgPrice(filtered_df) ==
    IF Len(filtered_df) > 0
    THEN Some(RoundDiv(SumSeq(Column(filtered_df, "price")), Len(filtered_df)))
    ELSE None

\* variant: the average distance is shown whenever listings are left
AvgDistWithoutStore(filtered_df, dd) ==
    IF Len(filtered_df) > 0
    THEN Some(RoundDiv(SumSeq([k \in 1..Len(filtered_df) |->
                                 filtered_df[k].distance_km[1]]),
                       Len(filtered_df) * 100))
    ELSE None

\* avg_dist: the mean distance in tenths of a km, None for "N/A"
AvgDist(filtered_df, dd) ==
    IF Len(filtered_df) > 0 /\ HasDistanceData(dd)
    THEN Some(RoundDiv(SumSeq([k \in 1..Len(filtered_df) |->
                                 filtered_df[k].distance_km[1]]),
                       Len(filtered_df) * 100))
    ELSE None

\* variant: the window starts one page late
StartIdxOfNextPage(page) == page * items_per_page

\* start_idx = (current_page - 1) * items_per_page
StartIdx(page) == (page - 1) * items_per_page

\* end_idx = min(start_idx + items_per_page, total_items)
EndIdx(start_idx, total_items) == Min(start_idx + items_per_page, total_items)

\* variant: the rows of df are counted, not those of df_clean
TotalCountOfDf == Len(df(csv))

\* total_count = len(df_clean)
TotalCount == Len(df_clean)

\* the sentences of the narrative after "Found ... out of ... total listings."
\* variant: the average distance is reported whenever listings are found
NarrativeAlwaysWithDistance(filtered_count, avg_price, avg_dist, dd) ==
    IF filtered_count > 0
    THEN <<"average monthly rent", "average distance", "explore the map">>
    ELSE <<"try adjusting your filters">>

Narrative(filtered_count, avg_price, avg_dist, dd) ==
    IF filtered_count > 0
    THEN <<"average monthly rent">>
         \o (IF HasDistanceData(dd) THEN <<"average distance">> ELSE <<>>)
         \o <<"explore the map">>
    ELSE <<"try adjusting your filters">>

\* the outputs of update_dashboard; avg_price in pounds and avg_dist in tenths
\* of a km, None for "N/A"
update_dashboard(beds, baths, range, dd, max_distance, toggle, page) ==
    LET filtered_df    == FilteredDf(beds, baths, range, dd, max_distance)
        total_count    == TotalCount
        filtered_count == Len(filtered_df)
        avg_price      == AvgPrice(filtered_df)
        avg_dist       == AvgDist(filtered_df, dd)
        table_df       == TableDf(filtered_df, dd, toggle)
        total_items    == Len(table_df)
        total_pages    == TotalPages(total_items)
        shown_page     == ClampPage(page, total_pages)
        start_idx      == StartIdx(shown_page)
        end_idx        == EndIdx(start_idx, total_items)
    IN  [total_count    |-> total_count,
         filtered_count |-> filtered_count,
         avg_price      |-> avg_price,
         avg_dist       |-> avg_dist,
         narrative      |-> [found |-> <<filtered_count, total_count>>,
                             sentences |-> Narrative(filtered_count, avg_price,
                                                  avg_dist, dd)],
         table_data     |-> SubSeq(table_df, start_idx + 1, end_idx),
         current_page   |-> shown_page,
         total_pages    |-> total_pages,
         start_idx      |-> start_idx,
         end_idx        |-> end_idx,
         total_items    |-> total_items,
         prev_disabled  |-> PrevDisabled(shown_page),
         next_disabled  |-> NextDisabled(shown_page, total_pages)]

-----------------------------------------------------------------------------
(* The values the model feeds to the inputs *)

\* the dropdowns' 'all'
All == None

BedroomsChoices == {All} \cup {Some(b) : b \in bedrooms_options}

BathroomsChoices == {All} \cup {Some(b) : b \in bathrooms_options}

\* slider positions: the default and the full range
PriceRanges == {<<2000, 4000>>, <<0, 10000>>}

\* the distance input cleared, 0, 3 km and the default 10 km
DistanceChoices == {None, Some(0), Some(Km(3)), Some(Km(10))}

\* a coordinate input cleared (the station buttons type other coordinates)
LatChoices == {None}

LonChoices == {None}

StationButtons == {"btn-liverpool-street"}

TableToggles == {"filtered", "all"}

-----------------------------------------------------------------------------
(* The callback chains *)

\* The user changed input_id, and trigger_id, an Input of update_page and of
\* update_dashboard, changed with it: update_page writes the 'current-page'
\* store, then update_dashboard rebuilds the view from the new inputs.
Refresh(input_id, trigger_id) ==
    /\ current_page' = update_page(trigger_id, current_page)
    /\ view' = update_dashboard(bedrooms', bathrooms', price_range',
                                distance_data', distance_input',
                                table_toggle', current_page')
    /\ triggered' = input_id
    /\ shown_before' = view.current_page

\* The page load: every callback runs once, calculate_distances first (with
\* the default coordinates), update_page next (it returns 1), update_dashboard
\* last.
Init ==
    /\ csv \in Files
    /\ df_clean = DropNa(df(csv))
    /\ bedrooms = All
    /\ bathrooms = All
    /\ price_range = <<2000, 4000>>
    /\ lat_input = Some(515074)
    /\ lon_input = Some(-1278)
    /\ distance_input = Some(Km(10))
    /\ table_toggle = "filtered"
    /\ distance_data = calculate_distances(lat_input, lon_input)
    /\ current_page = 1
    /\ view = update_dashboard(bedrooms, bathrooms, price_range, distance_data,
                               distance_input, table_toggle, current_page)
    /\ triggered = "page-load"
    /\ shown_before = 1

SetBedrooms(v) ==
    /\ v # bedrooms
    /\ bedrooms' = v
    /\ UNCHANGED <<csv, df_clean, bathrooms, price_range, lat_input, lon_input,
                   distance_input, table_toggle, distance_data>>
    /\ Refresh("bedrooms-filter", "bedrooms-filter")

SetBathrooms(v) ==
    /\ v # bathrooms
    /\ bathrooms' = v
    /\ UNCHANGED <<csv, df_clean, bedrooms, price_range, lat_input, lon_input,
                   distance_input, table_toggle, distance_data>>
    /\ Refresh("bathrooms-filter", "bathrooms-filter")

SetPriceRange(v) ==
    /\ v # price_range
    /\ price_range' = v
    /\ UNCHANGED <<csv, df_clean, bedrooms, bathrooms, lat_input, lon_input,
                   distance_input, table_toggle, distance_data>>
    /\ Refresh("price-slider", "price-slider")

SetMaxDistance(v) ==
    /\ v # distance_input
    /\ distance_input' = v
    /\ UNCHANGED <<csv, df_clean, bedrooms, bathrooms, price_range, lat_input,
                   lon_input, table_toggle, distance_data>>
    /\ Refresh("distance-input", "distance-input")

\* variant: the count of matching listings is the length of the table shown
SetTableToggleCountsTable(v) ==
    /\ v # table_toggle
    /\ table_toggle' = v
    /\ UNCHANGED <<csv, df_clean, bedrooms, bathrooms, price_range, lat_input,
                   lon_input, distance_input, distance_data>>
    /\ current_page' = update_page("table-toggle", current_page)
    /\ LET shown == update_dashboard(bedrooms, bathrooms, price_range,
                                     distance_data, distance_input, v,
                                     current_page')
       IN  view' = [shown EXCEPT !.filtered_count = shown.total_items]
    /\ triggered' = "table-toggle"
    /\ shown_before' = view.current_page

SetTableToggle(v) ==
    /\ v # table_toggle
    /\ table_toggle' = v
    /\ UNCHANGED <<csv, df_clean, bedrooms, bathrooms, price_range, lat_input,
                   lon_input, distance_input, distance_data>>
    /\ Refresh("table-toggle", "table-toggle")

\* variant: lat-input is an Input of calculate_distances, so an edit of the
\* latitude recomputes the distances
EditLatRecomputes(v) ==
    /\ v # lat_input
    /\ lat_input' = v
    /\ distance_data' = calculate_distances(v, lon_input)
    /\ UNCHANGED <<csv, df_clean, bedrooms, bathrooms, price_range, lon_input,
                   distance_input, table_toggle>>
    /\ Refresh("lat-input", "distance-data")

\* lat-input and lon-input are State of calculate_distances and Input of no
\* callback: an edit starts nothing.
EditLat(v) ==
    /\ v # lat_input
    /\ lat_input' = v
    /\ triggered' = "lat-input"
    /\ shown_before' = view.current_page
    /\ UNCHANGED <<csv, df_clean, bedrooms, bathrooms, price_range, lon_input,
                   distance_input, table_toggle, distance_data, current_page,
                   view>>

EditLon(v) ==
    /\ v # lon_input
    /\ lon_input' = v
    /\ triggered' = "lon-input"
    /\ shown_before' = view.current_page
    /\ UNCHANGED <<csv, df_clean, bedrooms, bathrooms, price_range, lat_input,
                   distance_input, table_toggle, distance_data, current_page,
                   view>>

\* update_location_from_buttons: a station button writes both inputs
update_location_from_buttons(button_id) ==
    /\ lat_input' = Some(StationCoords(button_id)[1])
    /\ lon_input' = Some(StationCoords(button_id)[2])
    /\ triggered' = button_id
    /\ shown_before' = view.current_page
    /\ UNCHANGED <<csv, df_clean, bedrooms, bathrooms, price_range, distance_input,
                   table_toggle, distance_data, current_page, view>>

\* The apply button: calculate_distances writes the 'distance-data' store,
\* which is an Input of update_page and update_dashboard.
ApplyDistance ==
    /\ distance_data' = calculate_distances(lat_input, lon_input)
    /\ UNCHANGED <<csv, df_clean, bedrooms, bathrooms, price_range, lat_input,
                   lon_input, distance_input, table_toggle>>
    /\ Refresh("apply-distance-btn", "distance-data")

PrevPage ==
    /\ UNCHANGED <<csv, df_clean, bedrooms, bathrooms, price_range, lat_input,
                   lon_input, distance_input, table_toggle, distance_data>>
    /\ Refresh("prev-page-btn", "prev-page-btn")

\* update_page has no upper limit. The button's disabled flag reaches the
\* browser only when update_dashboard has returned, so a click can arrive
\* while the store already holds the last page.
NextPage ==
    /\ current_page < MaxStoredPage
    /\ UNCHANGED <<csv, df_clean, bedrooms, bathrooms, price_range, lat_input,
                   lon_input, distance_input, table_toggle, distance_data>>
    /\ Refresh("next-page-btn", "next-page-btn")

Next ==
    \/ \E v \in BedroomsChoices : SetBedrooms(v)
    \/ \E v \in BathroomsChoices : SetBathrooms(v)
    \/ \E v \in PriceRanges : SetPriceRange(v)
    \/ \E v \in DistanceChoices : SetMaxDistance(v)
    \/ \E v \in TableToggles : SetTableToggle(v)
    \/ \E v \in LatChoices : EditLat(v)
    \/ \E v \in LonChoices : EditLon(v)
    \/ \E b \in StationButtons : update_location_from_buttons(b)
    \/ ApplyDistance
    \/ PrevPage
    \/ NextPage

Spec == Init /\ [][Next]_vars

-----------------------------------------------------------------------------
(* Pagination *)

\* the number of items the view paginates: the filtered rows or all rows
PaginatedCount ==
    IF table_toggle = "filtered" THEN view.filtered_count ELSE view.total_count

\* C1: in every view the reported page is at least 1 and at most total_pages,
\* and it starts inside the items that this view paginates (page 1 when there
\* are none).
C1_PageWithinPages ==
    /\ view.current_page >= 1
    /\ view.current_page <= view.total_pages
    /\ (view.current_page - 1) * items_per_page < Max(1, PaginatedCount)
    /\ view.total_items = PaginatedCount

\* the store holds a page past the last one and the view shows the last page
C1_Witness ==
    /\ current_page > view.total_pages
    /\ view.current_page = view.total_pages
    /\ view.total_pages > 1

FilterInputs == {"bedrooms-filter", "bathrooms-filter", "price-slider",
                 "distance-input"}

\* C2: a step that changes a filter criterion (bedrooms, bathrooms, price
\* range, max distance) or that runs the apply action leads to a view on
\* page 1, whatever page was shown before.
C2_FilterChangeShowsPageOne ==
    [][(\/ bedrooms' # bedrooms
        \/ bathrooms' # bathrooms
        \/ price_range' # price_range
        \/ distance_input' # distance_input
        \/ triggered' = "apply-distance-btn")
       => (view'.current_page = 1 /\ current_page' = 1)]_vars

\* a filter change or an apply came while a later page was shown, over a
\* result that still has several pages
C2_Witness ==
    /\ triggered \in FilterInputs \cup {"apply-distance-btn"}
    /\ shown_before > 1
    /\ view.total_pages > 1
    /\ view.current_page = 1

\* C3: a next event processed while the view shows the last page leads to a
\* view on the same page with has_next false.
C3_NextOnLastPageStays ==
    [][(triggered' = "next-page-btn" /\ view.current_page = view.total_pages)
       => (/\ view'.current_page = view.current_page
           /\ view'.total_pages = view.total_pages
           /\ view'.next_disabled)]_vars

\* next was processed on the last of several pages
C3_Witness ==
    /\ triggered = "next-page-btn"
    /\ shown_before = view.total_pages
    /\ view.current_page = view.total_pages
    /\ view.next_disabled
    /\ view.total_pages > 1

\* C4: a prev event processed while the view shows page p leads to a view on
\* page max(1, p - 1), also after next events processed on the last page.
C4_PrevShowsPreviousPage ==
    [][triggered' = "prev-page-btn"
       => view'.current_page = Max(1, view.current_page - 1)]_vars

\* the least k with k * d >= n
CeilDiv(n, d) == CHOOSE k \in 0..n : k * d >= n /\ (k = 0 \/ (k - 1) * d < n)

\* C5: with page size 10, total_pages is max(1, ceil(n / 10)) for the item
\* count n of the view and for every n up to the size of the file; n = 0 gives
\* 1 page and n = 25 gives 3.
C5_TotalPagesIsCeiling ==
    /\ view.total_pages = Max(1, CeilDiv(view.total_items, 10))
    /\ \A n \in 0..MaxRows : TotalPages(n) = Max(1, CeilDiv(n, 10))
    /\ view.total_items = 0 => view.total_pages = 1
    /\ view.total_items = 25 => view.total_pages = 3

\* a view over 25 items
C5_Witness == view.total_items = 25 /\ view.total_pages = 3

\* C6: in every view has_prev (the prev button enabled) is current_page > 1
\* and has_next (the next button enabled) is current_page < total_pages, for
\* the page the view reports.
C6_ButtonsMatchPage ==
    /\ (~view.prev_disabled) <=> (view.current_page > 1)
    /\ (~view.next_disabled) <=> (view.current_page < view.total_pages)

\* a view on a middle page: both buttons enabled
C6_Witness ==
    /\ view.current_page = 2
    /\ view.total_pages = 3
    /\ ~view.prev_disabled
    /\ ~view.next_disabled

-----------------------------------------------------------------------------
(* The distance column and the filters *)

\* the distance a view's row must carry: from the origin stored by the last
\* apply; without stored distances 0 in the filtered rows and no column in
\* the table of all rows
AppliedDistance(r) ==
    IF distance_data # None
    THEN Some(haversine(distance_data[1].lat, distance_data[1].lon,
                        r.latitude, r.longitude))
    ELSE IF table_toggle = "filtered" THEN Some(0) ELSE None

\* C7: the stored distance column and its origin change only in a step of the
\* apply action (not on an edit of the coordinate inputs, a station button, a
\* filter, the display mode or a page button), and every row of every view
\* carries the distance from the last-applied origin.
C7_DistancesChangeOnlyOnApply ==
    /\ [][triggered' # "apply-distance-btn"
          => distance_data' = distance_data]_vars
    /\ [](\A k \in 1..Len(view.table_data) :
            view.table_data[k].distance_km = AppliedDistance(view.table_data[k]))

\* the coordinate inputs were edited away from the stored origin, and the
\* view still shows distances
C7_Witness ==
    /\ triggered \in {"lat-input", "lon-input"} \cup StationButtons
    /\ distance_data # None
    /\ lat_input # None
    /\ lon_input # None
    /\ <<distance_data[1].lat, distance_data[1].lon>> # <<lat_input[1], lon_input[1]>>
    /\ \E k \in 1..Len(view.table_data) : view.table_data[k].distance_km[1] > 0

\* C8: when distances are stored and the max distance is set to a value >= 0,
\* 0 included, every listing of the filtered table is within that distance.
C8_MaxDistanceAlwaysFilters ==
    (/\ table_toggle = "filtered"
     /\ HasDistances(distance_data)
     /\ distance_input # None
     /\ distance_input[1] >= 0)
    => \A k \in 1..Len(view.table_data) :
          view.table_data[k].distance_km[1] <= distance_input[1]

IdxSet(rows) == {rows[k].idx : k \in 1..Len(rows)}

\* C9: with distances stored and the other criteria fixed, the filtered set
\* for a max distance d1 is a subset of the filtered set for any d2 >= d1.
C9_MonotoneInMaxDistance ==
    HasDistances(distance_data)
    => \A d1, d2 \in DistanceChoices \ {None} :
          d1[1] <= d2[1]
          => IdxSet(FilteredDf(bedrooms, bathrooms, price_range,
                               distance_data, d1))
             \subseteq IdxSet(FilteredDf(bedrooms, bathrooms, price_range,
                                         distance_data, d2))

\* one listing against all the criteria, the distance predicate being in
\* force when active
Passes(r, active) ==
    /\ bedrooms = All \/ r.bedrooms = bedrooms
    /\ bathrooms = All \/ r.bathrooms = bathrooms
    /\ price_range[1] <= r.price
    /\ r.price <= price_range[2]
    /\ active => AppliedDistance(r)[1] <= distance_input[1]

\* the idx of the listings of df_clean that pass, in row order, from row k on
RECURSIVE PassingFrom(_, _)
PassingFrom(k, active) ==
    IF k > Len(df_clean) THEN <<>>
    ELSE (IF Passes(df_clean[k], active) THEN <<df_clean[k].idx>> ELSE <<>>)
         \o PassingFrom(k + 1, active)

\* the filtered rows, the count and the filtered table's page are those of
\* the listings that pass
FilteredIs(passing) ==
    /\ Column(FilteredDf(bedrooms, bathrooms, price_range, distance_data,
                         distance_input), "idx") = passing
    /\ view.filtered_count = Len(passing)
    /\ table_toggle = "filtered"
       => Column(view.table_data, "idx")
          = SubSeq(passing, view.start_idx + 1, view.end_idx)

\* C10: the filtered view is exactly the listings of the cleaned dataset, in
\* row order, that pass the bedrooms, bathrooms, inclusive price and distance
\* predicates, a listing with missing bedrooms or bathrooms failing a specific
\* selection, and the distance predicate being active when a distance column
\* exists and the max distance is set.
C10_FilteredIsTheSubsequence ==
    FilteredIs(PassingFrom(1, HasDistances(distance_data)
                              /\ distance_input # None))

\* The same with the distance predicate active only for a max distance other
\* than 0, which is the test update_dashboard makes: this holds in every
\* reachable state, so the selections differ from C10 at max distance 0 only.
FilteredIsTheSubsequenceForNonZeroMax ==
    FilteredIs(PassingFrom(1, HasDistances(distance_data)
                              /\ distance_input # None
                              /\ distance_input[1] # 0))

-----------------------------------------------------------------------------
(* The identity filter *)

\* C11: with bedrooms 'all', bathrooms 'all', the price slider on its full
\* range [0, 10000] and no distance filter active (no distances stored, or no
\* max distance set), every listing of the cleaned dataset is in the
\* filtered view.
C11_FullRangeKeepsEveryListing ==
    (/\ bedrooms = All
     /\ bathrooms = All
     /\ price_range = <<0, 10000>>
     /\ distance_data = None \/ distance_input = None)
    => view.filtered_count = view.total_count

-----------------------------------------------------------------------------
(* Idempotence *)

\* C12: for the criteria and the distance column of any state, the same four
\* selections applied to the already-filtered view return the same listings.
C12_FilteringIsIdempotent ==
    LET filtered == FilteredDf(bedrooms, bathrooms, price_range, distance_data,
                               distance_input)
    IN  ApplyFilters(filtered, bedrooms, bathrooms, price_range, distance_data,
                     distance_input) = filtered

\* every selection is in force and the view keeps some listings, not all
C12_Witness ==
    /\ bedrooms # All
    /\ bathrooms # All
    /\ price_range = <<2000, 4000>>
    /\ distance_data # None
    /\ distance_input = Some(Km(3))
    /\ view.filtered_count > 1
    /\ view.filtered_count < view.total_count

-----------------------------------------------------------------------------
(* The counts and the dataset *)

\* C13: in every view filtered_count <= total_count and total_count is the
\* number of rows of the cleaned dataset, which is the one made at load: no
\* step changes the file read or the cleaned rows.
C13_CountsOverFixedDataset ==
    /\ [](/\ view.filtered_count <= view.total_count
          /\ view.total_count = Len(df_clean)
          /\ df_clean = DropNa(df(csv)))
    /\ [][csv' = csv /\ df_clean' = df_clean]_vars

\* after some input changed, over a file that lost rows in cleaning, the view
\* keeps a part of the listings
C13_Witness ==
    /\ triggered # "page-load"
    /\ Len(df(csv)) > Len(df_clean)
    /\ view.filtered_count > 0
    /\ view.filtered_count < view.total_count

-----------------------------------------------------------------------------
(* The summary statistics and the narrative *)

\* C14: avg_price is "N/A" exactly when the filtered view is empty, and
\* avg_dist is "N/A" exactly when the filtered view is empty or no distance
\* data is stored; the empty filtered view is served like any other, as one
\* empty page.
C14_NotAvailableExactlyWhenEmpty ==
    /\ view.avg_price = None <=> view.filtered_count = 0
    /\ view.avg_dist = None
       <=> (view.filtered_count = 0 \/ distance_data = None)
    /\ view.filtered_count = 0 /\ table_toggle = "filtered"
       => /\ view.table_data = <<>>
          /\ view.current_page = 1
          /\ view.total_pages = 1

\* the filters leave nothing of a dataset that has listings and distances
C14_Witness ==
    /\ Len(df_clean) > 0
    /\ distance_data # None
    /\ view.filtered_count = 0
    /\ view.avg_price = None
    /\ view.avg_dist = None

Says(sentence) ==
    \E k \in 1..Len(view.narrative.sentences) :
        view.narrative.sentences[k] = sentence

\* C15: the narrative always reports filtered_count and total_count; it has
\* the 'try adjusting your filters' message exactly when filtered_count = 0,
\* the average-price sentence exactly when filtered_count > 0, and the
\* average-distance sentence exactly when filtered_count > 0 and distance
\* data is stored.
C15_NarrativeBranches ==
    /\ view.narrative.found = <<view.filtered_count, view.total_count>>
    /\ Says("try adjusting your filters") <=> view.filtered_count = 0
    /\ Says("average monthly rent") <=> view.filtered_count > 0
    /\ Says("average distance")
       <=> (view.filtered_count > 0 /\ distance_data # None)

\* listings are found while no distance data is stored: the price sentence
\* stands without the distance sentence
C15_Witness ==
    /\ view.filtered_count > 0
    /\ distance_data = None
    /\ Says("average monthly rent")
    /\ ~Says("average distance")

\* C16: after the apply button is pressed with the latitude or the longitude
\* missing, no distance data is stored, the filtered view is what the other
\* criteria alone select whatever the max distance is, and avg_dist is "N/A".
C16_ApplyWithoutCoordinates ==
    (triggered = "apply-distance-btn" /\ (lat_input = None \/ lon_input = None))
    => /\ distance_data = None
       /\ view.avg_dist = None
       /\ view.filtered_count = Len(PassingFrom(1, FALSE))
       /\ \A d \in DistanceChoices :
             Column(FilteredDf(bedrooms, bathrooms, price_range,
                               distance_data, d), "idx")
             = PassingFrom(1, FALSE)

\* apply is pressed with an empty longitude while a max distance of 3 km is
\* set, and listings farther than that stay in the view
C16_Witness ==
    /\ triggered = "apply-distance-btn"
    /\ lat_input # None
    /\ lon_input = None
    /\ distance_input = Some(Km(3))
    /\ bedrooms = All
    /\ bathrooms = All
    /\ view.filtered_count > items_per_page

-----------------------------------------------------------------------------
(* Loading *)

IsNumber(cell) == cell.kind = "number"

\* the rows of the file from row i on whose price, latitude and longitude
\* cells are numbers, in file order
RECURSIVE CoercibleFrom(_)
CoercibleFrom(i) ==
    IF i > csv[2] THEN <<>>
    ELSE (IF /\ IsNumber(CsvRow(i).price)
             /\ IsNumber(CsvRow(i).latitude)
             /\ IsNumber(CsvRow(i).longitude)
          THEN <<i>> ELSE <<>>)
         \o CoercibleFrom(i + 1)

\* the numbers in one column of the kept rows
NumbersIn(col) ==
    {CsvRow(df_clean[k].idx)[col].value :
        k \in {j \in 1..Len(df_clean) : IsNumber(CsvRow(df_clean[j].idx)[col])}}

\* C17: the cleaned dataset is exactly the rows of the file whose price,
\* latitude and longitude are numbers, in file order and with those numbers; a
\* row whose bedrooms or bathrooms cell is empty or no number is kept with the
\* value missing, and the option sets hold just the numbers found.
C17_CleaningKeepsCoercibleRows ==
    /\ Column(df_clean, "idx") = CoercibleFrom(csv[1])
    /\ \A k \in 1..Len(df_clean) :
          LET cells == CsvRow(df_clean[k].idx)
          IN  /\ df_clean[k].price = cells.price.value
              /\ df_clean[k].latitude = cells.latitude.value
              /\ df_clean[k].longitude = cells.longitude.value
              /\ df_clean[k].bedrooms # None <=> IsNumber(cells.bedrooms)
              /\ df_clean[k].bathrooms # None <=> IsNumber(cells.bathrooms)
    /\ bedrooms_options = NumbersIn("bedrooms")
    /\ bathrooms_options = NumbersIn("bathrooms")

\* a file that loses rows in cleaning and keeps a row with "Studio" for
\* bedrooms and a row with no bathrooms
C17_Witness ==
    /\ Len(df_clean) > 0
    /\ Len(df_clean) < Len(df(csv))
    /\ \E k \in 1..Len(df_clean) :
          /\ CsvRow(df_clean[k].idx).bedrooms = Text("Studio")
          /\ df_clean[k].bedrooms = None
    /\ \E k \in 1..Len(df_clean) :
          /\ CsvRow(df_clean[k].idx).bathrooms = Absent
          /\ df_clean[k].bathrooms = None

\* C18: no view is served over an empty cleaned dataset (loading has failed
\* instead); every state of the model serves a view, so its cleaned dataset
\* has rows.
C18_NoViewOverEmptyDataset ==
    view.total_count = 0 => Len(df_clean) > 0

-----------------------------------------------------------------------------
(* The page window and the display mode *)

\* the idx of the rows of the sequence that the display mode paginates
PaginatedIdx ==
    IF table_toggle = "filtered"
    THEN Column(FilteredDf(bedrooms, bathrooms, price_range, distance_data,
                           distance_input), "idx")
    ELSE Column(df_clean, "idx")

\* C19: the rows of the page are the items of the paginated sequence at the
\* 0-based positions from (current_page - 1) * 10 up to, not including,
\* min(current_page * 10, n), in order; they are at most 10, and at least 1
\* when n > 0; start_idx and end_idx are the two ends of that window.
C19_PageWindow ==
    LET n  == Len(PaginatedIdx)
        lo == (view.current_page - 1) * 10
        hi == Min(view.current_page * 10, n)
    IN  /\ view.start_idx = lo
        /\ view.end_idx = hi
        /\ Column(view.table_data, "idx")
           = [k \in 1..(hi - lo) |-> PaginatedIdx[lo + k]]
        /\ Len(view.table_data) <= 10
        /\ n > 0 => Len(view.table_data) >= 1

\* the last page of several, not a full one
C19_Witness ==
    /\ view.current_page > 1
    /\ view.current_page = view.total_pages
    /\ Len(view.table_data) > 0
    /\ Len(view.table_data) < items_per_page
    /\ view.end_idx = view.total_items

\* C20: in display mode 'all' total_items, total_pages, the clamped page and
\* the page window are those of the whole cleaned dataset and each row has
\* the distance of its listing in the stored distance column (no distance
\* when none is stored); in display mode 'filtered' they are those of the
\* filtered view.
C20_DisplayModeChoosesTheSequence ==
    LET n == IF table_toggle = "all" THEN Len(df_clean)
                                     ELSE view.filtered_count
        pages == Max(1, CeilDiv(n, items_per_page))
    IN  /\ view.total_items = n
        /\ view.total_pages = pages
        /\ view.current_page = Max(1, Min(current_page, pages))
        /\ Len(view.table_data) = Min(items_per_page,
                                      n - (view.current_page - 1) * items_per_page)
        /\ table_toggle = "all"
           => \A k \in 1..Len(view.table_data) :
                 LET pos == view.start_idx + k
                 IN  /\ view.table_data[k].idx = df_clean[pos].idx
                     /\ view.table_data[k].distance_km
                        = IF distance_data # None
                          THEN Some(distance_data[1].distances[pos])
                          ELSE None

\* display mode 'all' on a later page that the filtered view does not have,
\* with stored distances of an origin that is no longer in the inputs
C20_Witness ==
    /\ table_toggle = "all"
    /\ distance_data # None
    /\ lat_input = None
    /\ view.filtered_count < view.total_count
    /\ view.filtered_count <= items_per_page
    /\ view.current_page > 1
    /\ Len(view.table_data) > 0

-----------------------------------------------------------------------------
(* The distance of a point from itself *)

\* latitudes from pole to pole and longitudes around the globe, in 1e-4 degrees
ValidLatitudes == {-900000, -515074, 0, 1, 514950, 515074, 515188, 900000}

ValidLongitudes == {-1800000, -1278, -814, 0, 1, 1278, 1800000}

\* the rows of df_clean that lie at the stored origin
AtOrigin ==
    {k \in 1..Len(df_clean) :
        /\ df_clean[k].latitude = distance_data[1].lat
        /\ df_clean[k].longitude = distance_data[1].lon}

\* C21: haversine(lat, lon, lat, lon) = 0 for every valid pair; so a listing
\* at the applied origin has the stored distance 0 and, when it passes the
\* other criteria, is in the filtered view for every max distance >= 0.
C21_ZeroDistanceAtOrigin ==
    /\ \A lat \in ValidLatitudes, lon \in ValidLongitudes :
          haversine(lat, lon, lat, lon) = 0
    /\ distance_data # None
       => \A k \in AtOrigin :
             /\ distance_data[1].distances[k] = 0
             /\ Passes(df_clean[k], FALSE)
                => \A d \in DistanceChoices \ {None} :
                      df_clean[k].idx
                      \in IdxSet(FilteredDf(bedrooms, bathrooms, price_range,
                                            distance_data, d))

\* the station's coordinates are applied, listings lie at the station, and a
\* max distance of 3 km keeps them and drops others
C21_Witness ==
    /\ triggered = "apply-distance-btn"
    /\ distance_data # None
    /\ distance_data[1].lat = StationCoords("btn-liverpool-street")[1]
    /\ distance_input = Some(Km(3))
    /\ \E k \in AtOrigin : Passes(df_clean[k], FALSE)
    /\ view.filtered_count > 0
    /\ view.filtered_count < Len(PassingFrom(1, FALSE))

-----------------------------------------------------------------------------
(* The display mode, the discarded distances and the page reset *)

\* the statistics of a view
Summary(shown) ==
    <<shown.total_count, shown.filtered_count, shown.avg_price,
      shown.avg_dist, shown.narrative>>

\* C22: a step that switches the display mode leaves total_count,
\* filtered_count, avg_price, avg_dist and the narrative as they were, and in
\* both modes they are those of the filtered view.
C22_DisplayModeKeepsSummary ==
    /\ [][table_toggle' # table_toggle => Summary(view') = Summary(view)]_vars
    /\ [](/\ view.filtered_count = Len(PassingFrom(1, HasDistances(distance_data)
                                                      /\ Truthy(distance_input)))
          /\ view.total_count = Len(df_clean))

\* the mode was just switched to 'all' and the table is longer than the
\* filtered view, whose statistics are shown
C22_Witness ==
    /\ triggered = "table-toggle"
    /\ table_toggle = "all"
    /\ view.filtered_count > 0
    /\ view.filtered_count < view.total_items
    /\ view.avg_dist # None

\* C23: a step of the apply action with the latitude or the longitude missing,
\* taken while distance data is stored, empties the store, and the view it
\* yields shows nothing of the old column: no average distance and no
\* distance sentence, the listings that the other criteria select, and rows
\* with distance 0 (mode 'filtered') or without a distance (mode 'all').
C23_MissingCoordinatesDiscardColumn ==
    [][(/\ distance_data # None
        /\ triggered' = "apply-distance-btn"
        /\ (lat_input = None \/ lon_input = None))
       => /\ distance_data' = None
          /\ view'.avg_dist = None
          /\ \A k \in 1..Len(view'.narrative.sentences) :
                view'.narrative.sentences[k] # "average distance"
          /\ view'.filtered_count = Len(PassingFrom(1, FALSE))
          /\ \A k \in 1..Len(view'.table_data) :
                view'.table_data[k].distance_km
                = IF table_toggle = "filtered" THEN Some(0) ELSE None]_vars

\* nothing is stored after an apply without latitude while a max distance is
\* set and the table shows all listings
C23_Witness ==
    /\ triggered = "apply-distance-btn"
    /\ lat_input = None
    /\ distance_data = None
    /\ distance_input = Some(Km(3))
    /\ table_toggle = "all"
    /\ Len(view.table_data) > 0

PageHandlerInputs == FilterInputs \cup {"apply-distance-btn", "table-toggle"}

\* C24: a step of any input of update_page other than the prev and next
\* buttons (a filter, the display mode, an apply, also one that stores the
\* same distances again) stores and shows page 1; a step that stores a page
\* other than 1 is a step of prev or next.
C24_OnlyNavigationLeavesPageOne ==
    /\ [][triggered' \in PageHandlerInputs
          => (current_page' = 1 /\ view'.current_page = 1)]_vars
    /\ [][(triggered' = "apply-distance-btn" /\ distance_data' = distance_data)
          => current_page' = 1]_vars
    /\ [][(current_page' # current_page /\ current_page' # 1)
          => triggered' \in NavButtons]_vars

\* the display mode was switched while a later page was shown
C24_Witness ==
    /\ triggered = "table-toggle"
    /\ shown_before > 1
    /\ current_page = 1
    /\ view.current_page = 1
    /\ view.total_pages > 1

====
